---- MODULE Spec2Model ----
(***************************************************************************)
(* Viral or Fail: the round loop of run_game and the score extractor       *)
(* extract_scores of src/viral_or_fail.py.                                 *)
(*                                                                         *)
(* A text is a sequence of chunks.  A chunk is a string holding one        *)
(* character, except LongDigits, which holds a run of 400 decimal digits:  *)
(* the text is the concatenation of its chunks.                            *)
(***************************************************************************)
EXTENDS Integers, Sequences, FiniteSets, TLC

\* src/viral_or_fail.py:37
MAX_ITERATIONS == 3

\* The longest input text of the extractor, in fragments (see Fragments).
MaxFrags == 3

-----------------------------------------------------------------------------
(* Characters *)

LongDigits == "9999999999999999999999999999999999999999999999999999999999999999999999999999999999999999999999999999999999999999999999999999999999999999999999999999999999999999999999999999999999999999999999999999999999999999999999999999999999999999999999999999999999999999999999999999999999999999999999999999999999999999999999999999999999999999999999999999999999999999999999999999999999999999999999999999999999999999"

Digits == {"0", "1", "2", "3", "4", "5", "6", "7", "8", "9"}

\* \d of the regular expressions.
IsDigit(c) == c \in Digits \/ c = LongDigits

\* \s of the regular expressions.
IsSpace(c) == c \in {" ", "\t", "\n", "\r", "\f"}

UpperCase ==
    {"A", "B", "C", "D", "E", "F", "G", "H", "I", "J", "K", "L", "M", "N", "O", "P", "Q", "R", "S", "T", "U", "V", "W", "X", "Y", "Z"}

ToLower ==
    "A" :> "a" @@ "B" :> "b" @@ "C" :> "c" @@ "D" :> "d" @@ "E" :> "e" @@ "F" :> "f" @@
    "G" :> "g" @@ "H" :> "h" @@ "I" :> "i" @@ "J" :> "j" @@ "K" :> "k" @@ "L" :> "l" @@
    "M" :> "m" @@ "N" :> "n" @@ "O" :> "o" @@ "P" :> "p" @@ "Q" :> "q" @@ "R" :> "r" @@
    "S" :> "s" @@ "T" :> "t" @@ "U" :> "u" @@ "V" :> "v" @@ "W" :> "w" @@ "X" :> "x" @@
    "Y" :> "y" @@ "Z" :> "z"

\* re.IGNORECASE: letters compare by their lower-case form.
Lower(c) == IF c \in UpperCase THEN ToLower[c] ELSE c

MinOf(S) == CHOOSE x \in S : \A y \in S : x <= y
MaxOf(S) == CHOOSE x \in S : \A y \in S : x >= y

-----------------------------------------------------------------------------
(* extract_scores: normalisation and the regular expressions *)

\* The number of stars in the run of stars that ends at position i.
StarsEndingAt(s, i) == i - MaxOf({j \in 0..i : j = 0 \/ s[j] # "*"})

\* algorithm_response.replace("**", "") removes the non-overlapping
\* occurrences of "**" from left to right: a run of stars loses its pairs,
\* and of a run of odd length the last star stays.
Kept(s, i) ==
    \/ s[i] # "*"
    \/ /\ i = Len(s) \/ s[i + 1] # "*"
       /\ StarsEndingAt(s, i) % 2 = 1

\* The characters of s[lo..hi] that the replacement keeps.
RECURSIVE KeptBetween(_, _, _)
KeptBetween(s, lo, hi) ==
    IF lo > hi THEN <<>>
    ELSE IF lo = hi THEN IF Kept(s, lo) THEN <<s[lo]>> ELSE <<>>
    ELSE KeptBetween(s, lo, (lo + hi) \div 2)
             \o KeptBetween(s, (lo + hi) \div 2 + 1, hi)

\* clean = algorithm_response.replace("**", "")
StripBold(s) == KeptBetween(s, 1, Len(s))

\* The literal w (in lower case) at position i of s, ignoring case.
LitAtI(s, i, w) ==
    /\ i >= 1
    /\ i + Len(w) - 1 <= Len(s)
    /\ \A k \in 1..Len(w) : Lower(s[i + k - 1]) = w[k]

\* The literal w at position i of s.
LitAt(s, i, w) ==
    /\ i >= 1
    /\ i + Len(w) - 1 <= Len(s)
    /\ \A k \in 1..Len(w) : s[i + k - 1] = w[k]

\* \s* from position p: the first position at or after p that holds no
\* white space (Len(s) + 1 at the end of the text).
SkipSpace(s, p) ==
    MinOf({j \in p..(Len(s) + 1) : j = Len(s) + 1 \/ ~IsSpace(s[j])})

\* "w1\s*w2" (ignoring case) at position i: the position after the match,
\* 0 when there is none.
LabelEnd(s, i, w1, w2) ==
    IF ~LitAtI(s, i, w1) THEN 0
    ELSE LET j == SkipSpace(s, i + Len(w1))
         IN  IF LitAtI(s, j, w2) THEN j + Len(w2) ELSE 0

\* The end of the longest run of digits that starts at i (s[i] is a digit).
RunEnd(s, i) ==
    MinOf({j \in i..Len(s) : j = Len(s) \/ ~IsDigit(s[j + 1])})

\* The greedy match of (\d+(?:\.\d+)?) at d (s[d] is a digit): the chunks of
\* the integer part, those of the fraction, and the match's last position.
NumberAt(s, d) ==
    LET a == RunEnd(s, d)
        hasFrac == a + 2 <= Len(s) /\ s[a + 1] = "." /\ IsDigit(s[a + 2])
        b == IF hasFrac THEN RunEnd(s, a + 2) ELSE a
    IN  [ip |-> SubSeq(s, d, a),
         fr |-> IF hasFrac THEN SubSeq(s, a + 2, b) ELSE <<>>,
         end |-> b]

NoNumber == [ip |-> <<>>, fr |-> <<>>, end |-> 0]

\* The positions of s from p on that hold a digit.
DigitsFrom(s, p) == {d \in p..Len(s) : IsDigit(s[d])}

\* re.search(r"(\d+(?:\.\d+)?)", s): the first number of s.
FirstNumber(s) ==
    IF DigitsFrom(s, 1) = {} THEN NoNumber
    ELSE NumberAt(s, MinOf(DigitsFrom(s, 1)))

\* re.findall(r"(\d+(?:\.\d+)?)", s) from position p: the non-overlapping
\* matches, left to right.
RECURSIVE FindAll(_, _)
FindAll(s, p) ==
    IF DigitsFrom(s, p) = {} THEN <<>>
    ELSE LET n == NumberAt(s, MinOf(DigitsFrom(s, p)))
         IN  <<n>> \o FindAll(s, n.end + 1)

\* "\s*/\s*100" at position p.
SlashHundredAt(s, p) ==
    LET q == SkipSpace(s, p)
    IN  /\ q <= Len(s)
        /\ s[q] = "/"
        /\ LitAt(s, SkipSpace(s, q + 1), <<"1", "0", "0">>)

\* re.search(r"(\d+(?:\.\d+)?)\s*/\s*100", s): the leftmost start d whose
\* number is followed by "/100".  Only the greedy number can be followed by
\* it: after a shorter integer part or fraction comes a digit or ".".
SlashHundredNumber(s) ==
    LET starts == {d \in DigitsFrom(s, 1) : SlashHundredAt(s, NumberAt(s, d).end + 1)}
    IN  IF starts = {} THEN NoNumber ELSE NumberAt(s, MinOf(starts))

-----------------------------------------------------------------------------
(* extract_scores: round(float(...)) and the clamp *)

\* The number of decimal digits of a run of chunks.
RECURSIVE DigitCount(_)
DigitCount(ds) ==
    IF ds = <<>> THEN 0 ELSE Len(Head(ds)) + DigitCount(Tail(ds))

\* A run of digit chunks without its leading zeros.
RECURSIVE Significant(_)
Significant(ds) ==
    IF ds = <<>> THEN <<>>
    ELSE IF Head(ds) = "0" THEN Significant(Tail(ds))
    ELSE ds

\* float(...) of a digit string is inf from 310 significant integer digits
\* on (and for the 309-digit strings above 1.797e308, which no text of this
\* model holds: its only long run is LongDigits).
IsInf(num) == DigitCount(Significant(num.ip)) > 309

DigitVal(c) ==
    CASE c = "0" -> 0 [] c = "1" -> 1 [] c = "2" -> 2 [] c = "3" -> 3
      [] c = "4" -> 4 [] c = "5" -> 5 [] c = "6" -> 6 [] c = "7" -> 7
      [] c = "8" -> 8 [] OTHER -> 9

\* The integer part of a finite number; values above 100 are kept as 101
\* (every one of them rounds above 100 and is clamped to 100).
RECURSIVE IntValue(_)
IntValue(ds) ==
    IF ds = <<>> THEN 0
    ELSE LET v == IntValue(SubSeq(ds, 1, Len(ds) - 1))
         IN  IF v > 100 THEN 101
             ELSE IF v * 10 + DigitVal(ds[Len(ds)]) > 100 THEN 101
             ELSE v * 10 + DigitVal(ds[Len(ds)])

\* The fraction of the double float(...) returns, against one half.  A
\* fraction 0.49...9 that runs into LongDigits is nearer to 0.5 than to any
\* other double, so float returns the half exactly.
FracVsHalf(fr) ==
    IF fr = <<>> THEN "lt"
    ELSE IF DigitVal(fr[1]) > 5 THEN "gt"
    ELSE IF DigitVal(fr[1]) = 5
         THEN IF \E k \in 2..Len(fr) : fr[k] # "0" THEN "gt" ELSE "eq"
    ELSE IF /\ fr[1] = "4"
            /\ \E k \in 2..Len(fr) : /\ fr[k] = LongDigits
                                     /\ \A m \in 2..(k - 1) : fr[m] = "9"
         THEN "eq"
    ELSE "lt"

\* Rounding with a half going up (not what round() does): the variant the
\* half-to-even property must tell apart from PyRound.
PyRoundHalfUp(v, half) ==
    IF half = "lt" THEN v ELSE v + 1

\* Python's round() of a finite double: to the nearest integer, a half to
\* the even neighbour.
PyRound(v, half) ==
    IF half = "gt" THEN v + 1
    ELSE IF half = "lt" THEN v
    ELSE IF v % 2 = 0 THEN v ELSE v + 1

\* min(100, max(0, score))
Clamp(score) ==
    IF score > 100 THEN 100 ELSE IF score < 0 THEN 0 ELSE score

\* min(100, max(0, round(float(group)))): round raises OverflowError on inf.
ScoreOf(num) ==
    IF IsInf(num) THEN [raised |-> TRUE, value |-> 0]
    ELSE [raised |-> FALSE,
          value |-> Clamp(PyRound(IntValue(num.ip), FracVsHalf(num.fr)))]

-----------------------------------------------------------------------------
(* extract_scores *)

DefaultScores ==
    [reach |-> 50, engagement |-> 50, virality |-> 50, weighted_total |-> 50]

\* The keys of simple_patterns, in the order of the loop.
SimpleKeys == <<"reach", "engagement", "virality">>

\* The first word of a key's label; the second is "Score".
LabelWord(key) ==
    CASE key = "reach" -> <<"r", "e", "a", "c", "h">>
      [] key = "engagement" -> <<"e", "n", "g", "a", "g", "e", "m", "e", "n", "t">>
      [] key = "virality" -> <<"v", "i", "r", "a", "l", "i", "t", "y">>

ScoreWord == <<"s", "c", "o", "r", "e">>
WeightedWord == <<"w", "e", "i", "g", "h", "t", "e", "d">>
TotalWord == <<"t", "o", "t", "a", "l">>

\* re.search(r"<Label>\s*Score\D*?(\d+(?:\.\d+)?)", clean, re.IGNORECASE):
\* the leftmost label that a digit follows anywhere later in the text (\D*?
\* runs over every non-digit, line ends included, up to the first digit),
\* and the number that starts at that digit.
SimpleSearch(clean, key) ==
    LET e(i) == LabelEnd(clean, i, LabelWord(key), ScoreWord)
        starts == {i \in 1..Len(clean) : e(i) # 0 /\ DigitsFrom(clean, e(i)) # {}}
    IN  IF starts = {} THEN [found |-> FALSE, num |-> NoNumber]
        ELSE [found |-> TRUE,
              num |-> NumberAt(clean, MinOf(DigitsFrom(clean, e(MinOf(starts)))))]

\* One pass of "for key, pattern in simple_patterns.items()" on the local
\* dict sc: the dict after it, and whether round() raised.
SimpleStep(clean, sc, key) ==
    LET m == SimpleSearch(clean, key)
    IN  IF ~m.found THEN [raised |-> FALSE, scores |-> sc]
        ELSE IF ScoreOf(m.num).raised THEN [raised |-> TRUE, scores |-> sc]
        ELSE [raised |-> FALSE,
              scores |-> [sc EXCEPT ![key] = ScoreOf(m.num).value]]

\* The whole line of the first "Weighted Total" label, text before the
\* label and a label that ends its line included: the variant the
\* label-to-line-end property must reject.  <<>> when there is no label.
WtWholeLine(clean) ==
    LET e(i) == LabelEnd(clean, i, WeightedWord, TotalWord)
        starts == {i \in 1..Len(clean) : e(i) # 0}
    IN  IF starts = {} THEN <<>>
        ELSE LET i == MinOf(starts)
                 a == MaxOf({k \in 1..i : k = 1 \/ clean[k - 1] = "\n"})
                 b == MinOf({k \in (i - 1)..Len(clean) :
                                k = Len(clean) \/ clean[k + 1] = "\n"})
             IN  SubSeq(clean, a, b)

\* re.search(r"Weighted\s*Total[^\n]+", clean, re.IGNORECASE).group(0): from
\* the leftmost label that at least one character other than a line end
\* follows, to the end of that line.  <<>> when there is no match.
WtLine(clean) ==
    LET e(i) == LabelEnd(clean, i, WeightedWord, TotalWord)
        starts == {i \in 1..Len(clean) :
                      e(i) # 0 /\ e(i) <= Len(clean) /\ clean[e(i)] # "\n"}
    IN  IF starts = {} THEN <<>>
        ELSE LET i == MinOf(starts)
                 j == MinOf({k \in e(i)..Len(clean) :
                                k = Len(clean) \/ clean[k + 1] = "\n"})
             IN  SubSeq(clean, i, j)

\* wt_line.rfind("="): 0 when the line holds no "=".
LastEq(line) ==
    IF \E k \in 1..Len(line) : line[k] = "=" THEN
        MaxOf({k \in 1..Len(line) : line[k] = "="})
    ELSE 0

\* The number the three tries pick on the weighted-total line, NoNumber when
\* they pick none.
WeightedNumber(line) ==
    IF SlashHundredNumber(line).end # 0 THEN SlashHundredNumber(line)
    ELSE IF LastEq(line) # 0 THEN
        LET nums == FindAll(SubSeq(line, LastEq(line), Len(line)), 1)
        IN  IF nums # <<>> THEN nums[Len(nums)] ELSE NoNumber
    ELSE FirstNumber(line)

\* The weighted-total part of extract_scores on the local dict sc.
WeightedStep(clean, sc) ==
    LET line == WtLine(clean)
    IN  IF line = <<>> THEN [raised |-> FALSE, scores |-> sc]
        ELSE IF WeightedNumber(line).end = 0 THEN [raised |-> FALSE, scores |-> sc]
        ELSE IF ScoreOf(WeightedNumber(line)).raised
             THEN [raised |-> TRUE, scores |-> sc]
        ELSE [raised |-> FALSE,
              scores |-> [sc EXCEPT
                  !.weighted_total = ScoreOf(WeightedNumber(line)).value]]

\* The loop over simple_patterns from its k-th key on.
RECURSIVE SimpleLoop(_, _, _)
SimpleLoop(clean, sc, k) ==
    IF k > Len(SimpleKeys) THEN [raised |-> FALSE, scores |-> sc]
    ELSE LET r == SimpleStep(clean, sc, SimpleKeys[k])
         IN  IF r.raised THEN r ELSE SimpleLoop(clean, r.scores, k + 1)

\* extract_scores(algorithm_response): the dict it returns, or raised.
ExtractScores(text) ==
    LET clean == StripBold(text)
        r == SimpleLoop(clean, DefaultScores, 1)
    IN  IF r.raised THEN r ELSE WeightedStep(clean, r.scores)

-----------------------------------------------------------------------------
(* Input texts of the extractor *)

\* Pieces of evaluator output; an input text is a concatenation of at most
\* MaxFrags of them.
Fragments ==
    << <<"R", "e", "a", "c", "h", " ", "S", "c", "o", "r", "e", ":">>,
       <<"e", "n", "g", "a", "g", "e", "m", "e", "n", "t", " ", "s", "c", "o", "r", "e">>,
       <<"V", "i", "r", "a", "l", "i", "t", "y", " ", "S", "c", "o", "r", "e">>,
       <<"W", "e", "i", "g", "h", "t", "e", "d", " ", "T", "o", "t", "a", "l">>,
       <<" ", "6", "1", ".", "5">>,
       <<" ", "6", "2", ".", "5">>,
       <<" ", "7">>,
       <<"=">>,
       <<"/", "1", "0", "0">>,
       <<"\n">>,
       <<"*", "*">>,
       <<LongDigits>> >>

RECURSIVE Concat(_)
Concat(fs) == IF fs = <<>> THEN <<>> ELSE Head(fs) \o Concat(Tail(fs))

Texts ==
    UNION {{Concat([k \in 1..n |-> Fragments[f[k]]]) :
               f \in [1..n -> 1..Len(Fragments)]} : n \in 0..MaxFrags}

\* The decimal digit d as a character, and the digits of k in 0..99.
DigitChar(d) == CHOOSE c \in Digits : DigitVal(c) = d

DigitsOf(k) ==
    IF k < 10 THEN <<DigitChar(k)>>
    ELSE <<DigitChar(k \div 10), DigitChar(k % 10)>>

\* The six places a number can be extracted from, each with the number k.5:
\* after one of the three labels, and on the weighted-total line before
\* "/100", after "=", and alone.
HalfText(place, k) ==
    LET half == DigitsOf(k) \o <<".", "5">>
    IN  CASE place = "reach" -> Fragments[1] \o <<" ">> \o half
          [] place = "engagement" -> Fragments[2] \o <<" ">> \o half
          [] place = "virality" -> Fragments[3] \o <<" ">> \o half
          [] place = "slash" -> Fragments[4] \o <<" ">> \o half \o Fragments[9]
          [] place = "equals" -> Fragments[4] \o <<" ", "=", " ">> \o half
          [] place = "first" -> Fragments[4] \o <<" ">> \o half

HalfPlaces == {"reach", "engagement", "virality", "slash", "equals", "first"}

HalfTexts == {HalfText(place, k) : place \in HalfPlaces, k \in 0..99}

-----------------------------------------------------------------------------
(* run_game: data *)

\* PERSONAS of src/agents/audience.py, by name.
Personas == {"CasualChloe", "TryHard_Tyler", "PixelPete"}

\* PLATFORMS of src/config/platform_rules.py.
PLATFORMS == <<"TikTok", "Twitter/X", "YouTube", "Instagram">>

\* A criterion of a rubric; its weight is written in hundredths (30 for
\* the 0.30 of the source).
Criterion(name, weight) == [name |-> name, weight |-> weight]

\* Rubrics with the last YouTube weight lowered to 0.10: the variant the
\* weight-sum property must reject.
PLATFORM_RULES_Skewed ==
    "TikTok" :>
        [format_hint |-> "Short-form video (15-60s), vertical, with trending audio",
         criteria |->
          <<Criterion("hook_strength", 30),
            Criterion("trend_alignment", 25),
            Criterion("shareability", 20),
            Criterion("hashtag_strategy", 15),
            Criterion("audio_reference", 10)>>] @@
    "Twitter/X" :>
        [format_hint |-> "Tweet or thread, hot takes, quote-retweet bait",
         criteria |->
          <<Criterion("hot_take_factor", 30),
            Criterion("quote_retweet_bait", 25),
            Criterion("timing_relevance", 20),
            Criterion("thread_potential", 15),
            Criterion("hashtag_strategy", 10)>>] @@
    "YouTube" :>
        [format_hint |-> "Video (Shorts or long-form), strong thumbnail + title",
         criteria |->
          <<Criterion("thumbnail_clickability", 25),
            Criterion("title_curiosity_gap", 25),
            Criterion("watch_time_potential", 20),
            Criterion("seo_optimization", 15),
            Criterion("community_engagement", 10)>>] @@
    "Instagram" :>
        [format_hint |-> "Reel, carousel, or single image with strong caption",
         criteria |->
          <<Criterion("visual_appeal", 30),
            Criterion("caption_hook", 20),
            Criterion("carousel_potential", 20),
            Criterion("hashtag_reach", 15),
            Criterion("story_crosspost", 15)>>]

PLATFORM_RULES ==
    "TikTok" :>
        [format_hint |-> "Short-form video (15-60s), vertical, with trending audio",
         criteria |->
          <<Criterion("hook_strength", 30),
            Criterion("trend_alignment", 25),
            Criterion("shareability", 20),
            Criterion("hashtag_strategy", 15),
            Criterion("audio_reference", 10)>>] @@
    "Twitter/X" :>
        [format_hint |-> "Tweet or thread, hot takes, quote-retweet bait",
         criteria |->
          <<Criterion("hot_take_factor", 30),
            Criterion("quote_retweet_bait", 25),
            Criterion("timing_relevance", 20),
            Criterion("thread_potential", 15),
            Criterion("hashtag_strategy", 10)>>] @@
    "YouTube" :>
        [format_hint |-> "Video (Shorts or long-form), strong thumbnail + title",
         criteria |->
          <<Criterion("thumbnail_clickability", 25),
            Criterion("title_curiosity_gap", 25),
            Criterion("watch_time_potential", 20),
            Criterion("seo_optimization", 15),
            Criterion("community_engagement", 15)>>] @@
    "Instagram" :>
        [format_hint |-> "Reel, carousel, or single image with strong caption",
         criteria |->
          <<Criterion("visual_appeal", 30),
            Criterion("caption_hook", 20),
            Criterion("carousel_potential", 20),
            Criterion("hashtag_reach", 15),
            Criterion("story_crosspost", 15)>>]

\* int(info["weight"] * 100): the doubles 0.29, 0.57 and 0.58 times 100 fall
\* just below the integer and are cut to 28, 56 and 57; every other weight
\* of two decimals gives its hundredths.
WeightPct(weight) == IF weight \in {29, 57, 58} THEN weight - 1 ELSE weight

\* build_scoring_rubric(platform): the platform and, for each criterion in
\* order, its name and its whole percent.
BuildScoringRubric(platform) ==
    LET criteria == PLATFORM_RULES[platform].criteria
    IN  [platform |-> platform,
         criteria |-> [i \in 1..Len(criteria) |->
                          [name |-> criteria[i].name,
                           pct |-> WeightPct(criteria[i].weight)]]]

\* The lists fetch_gaming_trends may return.
TrendLists == {<<"GTA 6 trailer", "Elden Ring DLC">>}

\* "No response generated."
NoResponse == <<"N", "o", " ", "r", "e", "s", "p", "o", "n", "s", "e", " ", "g", "e", "n", "e", "r", "a", "t", "e", "d", ".">>

\* Replies of the three agents.
CreatorReplies == {<<"h", "o", "o", "k">>}

AudienceReplies == {<<"l", "o", "l">>}

\* "Reach Score: 61.5\nengagement score 62.5\nVirality Score 7\n
\*  Weighted Total= 7 61.5/100"
EvalFull ==
    Concat(<<Fragments[1], Fragments[5], Fragments[10],
             Fragments[2], Fragments[6], Fragments[10],
             Fragments[3], Fragments[7], Fragments[10],
             Fragments[4], Fragments[8], Fragments[7], Fragments[5],
             Fragments[9]>>)

\* "**Reach Score:** 7\nWeighted Total 62.5"
EvalPartial ==
    Concat(<<Fragments[11], Fragments[1], Fragments[11], Fragments[7],
             Fragments[10], Fragments[4], Fragments[6]>>)

\* "Reach Score:" followed by 400 digits.
EvalLong == Concat(<<Fragments[1], Fragments[12]>>)

AlgorithmReplies == {EvalFull, EvalPartial, EvalLong}

Replies(role) ==
    CASE role = "creator" -> CreatorReplies
      [] role = "algorithm" -> AlgorithmReplies
      [] role = "audience" -> AudienceReplies

\* What user_proxy.initiate_chat may return: a chat history with a reply of
\* the agent, or none.
ChatResults(role) ==
    {[reply |-> TRUE, content |-> t] : t \in Replies(role)}
        \cup {[reply |-> FALSE, content |-> <<>>]}

\* get_agent_response, once initiate_chat has returned result.
GetAgentResponse(result) ==
    IF result.reply THEN result.content ELSE NoResponse

\* scores = {}
\* os.getenv("GITHUB_TOKEN"): None, the empty string or a token.
NoToken == [set |-> FALSE, value |-> ""]

Tokens ==
    {NoToken, [set |-> TRUE, value |-> ""], [set |-> TRUE, value |-> "ghp_x"]}

EmptyDict == [k \in {} |-> 0]

\* d.get(key, default)
Get(d, key, default) == IF key \in DOMAIN d THEN d[key] ELSE default

NoRequest == [kind |-> "none"]

NoScorecard == [shown |-> FALSE]

-----------------------------------------------------------------------------
(* fetch_gaming_trends: its inputs and its list operations.  A topic string
   is a sequence of characters. *)

\* The largest count, the longest live list before padding and the longest
\* short fallback list the inputs are drawn from.
MaxCount == 6
MaxLive == 2
MaxSample == 2

GAMES_TOPIC_ID == 6

gaming_keywords ==
    {<<"g", "a", "m", "e">>,
     <<"g", "a", "m", "i", "n", "g">>,
     <<"g", "a", "m", "e", "r">>,
     <<"e", "s", "p", "o", "r", "t">>,
     <<"p", "l", "a", "y", "s", "t", "a", "t", "i", "o", "n">>,
     <<"x", "b", "o", "x">>,
     <<"n", "i", "n", "t", "e", "n", "d", "o">>,
     <<"s", "t", "e", "a", "m">>,
     <<"t", "w", "i", "t", "c", "h">>,
     <<"f", "o", "r", "t", "n", "i", "t", "e">>,
     <<"v", "a", "l", "o", "r", "a", "n", "t">>,
     <<"l", "e", "a", "g", "u", "e">>,
     <<"m", "i", "n", "e", "c", "r", "a", "f", "t">>,
     <<"r", "o", "b", "l", "o", "x">>,
     <<"c", "o", "d">>,
     <<"w", "a", "r", "z", "o", "n", "e">>,
     <<"a", "p", "e", "x">>,
     <<"z", "e", "l", "d", "a">>,
     <<"m", "a", "r", "i", "o">>,
     <<"p", "o", "k", "e", "m", "o", "n">>,
     <<"g", "t", "a">>,
     <<"e", "l", "d", "e", "n">>,
     <<"f", "i", "n", "a", "l", " ", "f", "a", "n", "t", "a", "s", "y">>,
     <<"p", "s", "5">>,
     <<"p", "s", "6">>,
     <<"s", "w", "i", "t", "c", "h">>,
     <<"g", "p", "u">>,
     <<"r", "t", "x">>,
     <<"d", "l", "c">>}

Gta == <<"G", "T", "A", " ", "6">>
Oscars == <<"O", "s", "c", "a", "r", "s">>
Elden == <<"E", "l", "d", "e", "n", " ", "R", "i", "n", "g", " ", "D", "L", "C">>
Fortnite == <<"F", "o", "r", "t", "n", "i", "t", "e">>
Minecraft == <<"M", "i", "n", "e", "c", "r", "a", "f", "t">>
Roblox == <<"R", "o", "b", "l", "o", "x">>
Valorant == <<"V", "a", "l", "o", "r", "a", "n", "t">>

\* A trend of trending_now: its keyword and its topics.
Trend(keyword, topics) == [keyword |-> keyword, topics |-> topics]

LiveTrends ==
    {Trend(k, t) : k \in {Gta, Oscars}, t \in {{GAMES_TOPIC_ID}, {}}}

\* Four more trends, all tagged with the Games topic.
TaggedFour ==
    <<Trend(Fortnite, {GAMES_TOPIC_ID}), Trend(Minecraft, {GAMES_TOPIC_ID}),
      Trend(Roblox, {GAMES_TOPIC_ID}), Trend(Valorant, {GAMES_TOPIC_ID})>>

\* The sequences over S of length at most n.
SeqsUpTo(S, n) == UNION {[1..m -> S] : m \in 0..n}

\* What tr.trending_now(geo="US") gives: it raises (or the import does), or
\* it returns a list of trends.
LiveOutcomes ==
    {[ok |-> FALSE, trends |-> <<>>]} \cup
    {[ok |-> TRUE, trends |-> l] : l \in SeqsUpTo(LiveTrends, MaxLive)} \cup
    {[ok |-> TRUE, trends |-> l \o TaggedFour] :
         l \in SeqsUpTo(LiveTrends, MaxLive)}

\* sample_trends.json: missing, not a JSON object with "trends", or holding a
\* list of topic strings.
SampleFiles ==
    {[state |-> "missing", trends |-> <<>>],
     [state |-> "malformed", trends |-> <<>>]} \cup
    {[state |-> "ok", trends |-> l] : l \in SeqsUpTo({Gta, Elden}, MaxSample)} \cup
    {[state |-> "ok",
      trends |-> <<Gta, Elden, Fortnite, Minecraft, Roblox, Valorant>>]}

\* list[:count] for count >= 0
Take(list, count) ==
    IF count >= Len(list) THEN list ELSE SubSeq(list, 1, count)

\* x in list
In(x, list) == \E i \in 1..Len(list) : list[i] = x

\* [t.keyword for t in all_trends if GAMES_TOPIC_ID in (t.topics or [])]
RECURSIVE TagFilter(_)
TagFilter(all_trends) ==
    IF all_trends = <<>> THEN <<>>
    ELSE IF GAMES_TOPIC_ID \in Head(all_trends).topics
         THEN <<Head(all_trends).keyword>> \o TagFilter(Tail(all_trends))
         ELSE TagFilter(Tail(all_trends))

\* kw in t.keyword.lower()
HasKeyword(keyword, kw) ==
    \E i \in 1..Len(keyword) : LitAtI(keyword, i, kw)

\* [t.keyword for t in all_trends if t.keyword not in gaming_trends
\*  and any(kw in t.keyword.lower() for kw in gaming_keywords)]
RECURSIVE KeywordMatches(_, _)
KeywordMatches(all_trends, gaming_trends) ==
    IF all_trends = <<>> THEN <<>>
    ELSE IF /\ ~In(Head(all_trends).keyword, gaming_trends)
            /\ \E kw \in gaming_keywords :
                   HasKeyword(Head(all_trends).keyword, kw)
         THEN <<Head(all_trends).keyword>> \o
              KeywordMatches(Tail(all_trends), gaming_trends)
         ELSE KeywordMatches(Tail(all_trends), gaming_trends)

\* [t for t in sample if t not in gaming_trends]
RECURSIVE NotIn(_, _)
NotIn(sample, gaming_trends) ==
    IF sample = <<>> THEN <<>>
    ELSE IF In(Head(sample), gaming_trends)
         THEN NotIn(Tail(sample), gaming_trends)
         ELSE <<Head(sample)>> \o NotIn(Tail(sample), gaming_trends)

\* combined = gaming_trends + [t for t in sample if t not in gaming_trends]
Combined(gaming_trends, sample) == gaming_trends \o NotIn(sample, gaming_trends)

-----------------------------------------------------------------------------
(* State *)

VARIABLES
    pc,                 \* the position of run_game
    token,              \* os.getenv("GITHUB_TOKEN"): NoToken for None
    persona,            \* the persona create_audience_persona_agent picked
    trends,             \* the list fetch_gaming_trends returned
    topic,
    platform,
    iteration,
    creator_response,
    algorithm_response,
    audience_response,
    scores,             \* {} (the empty function) until the first extraction
    request,            \* the message of the latest get_agent_response call
    calls,              \* the get_agent_response calls made, with their outcome
    evaluations,        \* the Algorithm Simulator's reply of each round
    extractions,        \* the number of extract_scores calls that returned
    choices,            \* the answers to the iterate / lock in prompt
    scorecard,          \* what display_scorecard was given
    x_pc,               \* extract_scores on its own: position
    x_text,             \*   its argument
    x_key,              \*   the index of the loop over simple_patterns
    x_scores,           \*   its local dict
    x_ret               \*   what it returned, "none" before

VARIABLES
    t_pc,               \* fetch_gaming_trends on its own: position
    t_count,            \*   its argument
    t_live,             \*   what the live lookup will do
    t_file,             \*   the state of sample_trends.json
    t_all,              \*   all_trends
    t_gaming,           \*   gaming_trends
    t_reads,            \*   the calls of _load_sample_trends made
    t_ret               \*   what it returned, <<>> before

vars ==
    <<pc, token, persona, trends, topic, platform, iteration, creator_response,
      algorithm_response, audience_response, scores, request, calls,
      evaluations, extractions, choices, scorecard,
      x_pc, x_text, x_key, x_scores, x_ret,
      t_pc, t_count, t_live, t_file, t_all, t_gaming, t_reads, t_ret>>

game_vars ==
    <<pc, token, persona, trends, topic, platform, iteration, creator_response,
      algorithm_response, audience_response, scores, request, calls,
      evaluations, extractions, choices, scorecard>>

x_vars == <<x_pc, x_text, x_key, x_scores, x_ret>>

t_vars == <<t_pc, t_count, t_live, t_file, t_all, t_gaming, t_reads, t_ret>>

\* fetch_gaming_trends is not running on its own.
TrendsOff ==
    /\ t_pc = "off"
    /\ t_count = 0
    /\ t_live = [ok |-> FALSE, trends |-> <<>>]
    /\ t_file = [state |-> "missing", trends |-> <<>>]
    /\ t_all = <<>>
    /\ t_gaming = <<>>
    /\ t_reads = 0
    /\ t_ret = <<>>

\* extract_scores is not running on its own.
ExtractOff ==
    /\ x_pc = "off"
    /\ x_text = <<>>
    /\ x_key = 1
    /\ x_scores = DefaultScores
    /\ x_ret = "none"

-----------------------------------------------------------------------------
(* extract_scores on its own, step by step *)

\* One pass of the loop over simple_patterns; x_key counts the passes made.
XSimple ==
    /\ x_pc = "simple"
    /\ LET r == SimpleStep(StripBold(x_text), x_scores, SimpleKeys[x_key])
       IN  /\ x_scores' = r.scores
           /\ x_pc' = IF r.raised THEN "raised"
                      ELSE IF x_key = Len(SimpleKeys) THEN "weighted"
                      ELSE "simple"
           /\ x_key' = IF r.raised THEN x_key ELSE x_key + 1
    /\ UNCHANGED <<x_text, x_ret>>
    /\ UNCHANGED game_vars
    /\ UNCHANGED t_vars

\* The weighted-total part.
XWeighted ==
    /\ x_pc = "weighted"
    /\ LET r == WeightedStep(StripBold(x_text), x_scores)
       IN  /\ x_scores' = r.scores
           /\ x_pc' = IF r.raised THEN "raised" ELSE "return"
    /\ UNCHANGED <<x_text, x_key, x_ret>>
    /\ UNCHANGED game_vars
    /\ UNCHANGED t_vars

\* return scores
XReturn ==
    /\ x_pc = "return"
    /\ x_ret' = x_scores
    /\ x_pc' = "returned"
    /\ UNCHANGED <<x_text, x_key, x_scores>>
    /\ UNCHANGED game_vars
    /\ UNCHANGED t_vars

GameOff ==
    /\ pc = "off"
    /\ token = NoToken
    /\ persona = "none"
    /\ trends = <<>>
    /\ topic = "none"
    /\ platform = "none"
    /\ iteration = 0
    /\ creator_response = <<>>
    /\ algorithm_response = <<>>
    /\ audience_response = <<>>
    /\ scores = EmptyDict
    /\ request = NoRequest
    /\ calls = <<>>
    /\ evaluations = <<>>
    /\ extractions = 0
    /\ choices = <<>>
    /\ scorecard = NoScorecard

\* extract_scores entered with any text of Texts or HalfTexts.
InitX ==
    /\ GameOff
    /\ TrendsOff
    /\ x_text \in Texts \cup HalfTexts
    /\ x_pc = "simple"
    /\ x_key = 1
    /\ x_scores = DefaultScores
    /\ x_ret = "none"

NextX == XSimple \/ XWeighted \/ XReturn

SpecX == InitX /\ [][NextX]_vars

-----------------------------------------------------------------------------
(* fetch_gaming_trends on its own, step by step *)

\* _load_sample_trends(): it raises unless the file holds a list.
LoadRaises == t_file.state # "ok"

\* from trendspy import Trends; tr.trending_now(geo="US")
TLookup ==
    /\ t_pc = "lookup"
    /\ IF t_live.ok
       THEN /\ t_all' = t_live.trends
            /\ t_pc' = "tags"
       ELSE /\ t_all' = t_all
            /\ t_pc' = "except"
    /\ UNCHANGED <<t_count, t_live, t_file, t_gaming, t_reads, t_ret>>
    /\ UNCHANGED game_vars
    /\ UNCHANGED x_vars

\* The filter on the Games topic and the first "if len(gaming_trends) >= 5".
TTags ==
    /\ t_pc = "tags"
    /\ t_gaming' = TagFilter(t_all)
    /\ IF Len(t_gaming') >= 5
       THEN /\ t_ret' = Take(t_gaming', t_count)
            /\ t_pc' = "returned"
       ELSE /\ t_ret' = t_ret
            /\ t_pc' = "keywords"
    /\ UNCHANGED <<t_count, t_live, t_file, t_all, t_reads>>
    /\ UNCHANGED game_vars
    /\ UNCHANGED x_vars

\* The keyword matches and the second "if len(gaming_trends) >= 5".
TKeywords ==
    /\ t_pc = "keywords"
    /\ t_gaming' = t_gaming \o KeywordMatches(t_all, t_gaming)
    /\ IF Len(t_gaming') >= 5
       THEN /\ t_ret' = Take(t_gaming', t_count)
            /\ t_pc' = "returned"
       ELSE /\ t_ret' = t_ret
            /\ t_pc' = "mix"
    /\ UNCHANGED <<t_count, t_live, t_file, t_all, t_reads>>
    /\ UNCHANGED game_vars
    /\ UNCHANGED x_vars

\* sample = _load_sample_trends(); return combined[:count].  What the load
\* raises is caught by "except Exception".
TMix ==
    /\ t_pc = "mix"
    /\ t_reads' = t_reads + 1
    /\ IF LoadRaises
       THEN /\ t_ret' = t_ret
            /\ t_pc' = "except"
       ELSE /\ t_ret' = Take(Combined(t_gaming, t_file.trends), t_count)
            /\ t_pc' = "returned"
    /\ UNCHANGED <<t_count, t_live, t_file, t_all, t_gaming>>
    /\ UNCHANGED game_vars
    /\ UNCHANGED x_vars

\* except Exception: return _load_sample_trends()[:count].  What the load
\* raises here leaves fetch_gaming_trends.
TExcept ==
    /\ t_pc = "except"
    /\ t_reads' = t_reads + 1
    /\ IF LoadRaises
       THEN /\ t_ret' = t_ret
            /\ t_pc' = "raised"
       ELSE /\ t_ret' = Take(t_file.trends, t_count)
            /\ t_pc' = "returned"
    /\ UNCHANGED <<t_count, t_live, t_file, t_all, t_gaming>>
    /\ UNCHANGED game_vars
    /\ UNCHANGED x_vars

\* fetch_gaming_trends entered with any count, live outcome and file.
InitT ==
    /\ GameOff
    /\ ExtractOff
    /\ t_pc = "lookup"
    /\ t_count \in 0..MaxCount
    /\ t_live \in LiveOutcomes
    /\ t_file \in SampleFiles
    /\ t_all = <<>>
    /\ t_gaming = <<>>
    /\ t_reads = 0
    /\ t_ret = <<>>

NextT == TLookup \/ TTags \/ TKeywords \/ TMix \/ TExcept

SpecT == InitT /\ [][NextT]_vars

-----------------------------------------------------------------------------
(* run_game *)

Init ==
    /\ pc = "start"
    /\ token \in Tokens
    /\ persona = "none"
    /\ trends = <<>>
    /\ topic = "none"
    /\ platform = "none"
    /\ iteration = 0
    /\ creator_response = <<>>
    /\ algorithm_response = <<>>
    /\ audience_response = <<>>
    /\ scores = EmptyDict
    /\ request = NoRequest
    /\ calls = <<>>
    /\ evaluations = <<>>
    /\ extractions = 0
    /\ choices = <<>>
    /\ scorecard = NoScorecard
    /\ ExtractOff
    /\ TrendsOff

\* A get_llm_config that warns about a missing token and goes on: the
\* variant the missing-token property must reject.
GetLlmConfigGoesOn ==
    /\ pc = "start"
    /\ pc' = "agents"
    /\ UNCHANGED <<token, persona, trends, topic, platform, iteration,
                   creator_response, algorithm_response, audience_response,
                   scores, request, calls, evaluations, extractions, choices,
                   scorecard>>
    /\ UNCHANGED x_vars
    /\ UNCHANGED t_vars

\* if not api_key: the variable is not set, or set to the empty string.
NotApiKey == ~token.set \/ token.value = ""

\* get_llm_config: sys.exit(1) without GITHUB_TOKEN.
GetLlmConfig ==
    /\ pc = "start"
    /\ pc' = IF NotApiKey THEN "exited" ELSE "agents"
    /\ UNCHANGED <<token, persona, trends, topic, platform, iteration,
                   creator_response, algorithm_response, audience_response,
                   scores, request, calls, evaluations, extractions, choices,
                   scorecard>>
    /\ UNCHANGED x_vars
    /\ UNCHANGED t_vars

\* create_user_proxy and the three create_*_agent calls; the persona is
\* random.choice of PERSONAS.
CreateAgents ==
    /\ pc = "agents"
    /\ \E p \in Personas : persona' = p
    /\ pc' = "trends"
    /\ UNCHANGED <<token, trends, topic, platform, iteration,
                   creator_response, algorithm_response, audience_response,
                   scores, request, calls, evaluations, extractions, choices,
                   scorecard>>
    /\ UNCHANGED x_vars
    /\ UNCHANGED t_vars

\* trends = fetch_gaming_trends(count=10)
FetchTrends ==
    /\ pc = "trends"
    /\ \E t \in TrendLists : trends' = t
    /\ pc' = "select_trend"
    /\ UNCHANGED <<token, persona, topic, platform, iteration,
                   creator_response, algorithm_response, audience_response,
                   scores, request, calls, evaluations, extractions, choices,
                   scorecard>>
    /\ UNCHANGED x_vars
    /\ UNCHANGED t_vars

\* _load_sample_trends raises inside fetch_gaming_trends' except clause.
FetchTrendsRaises ==
    /\ pc = "trends"
    /\ pc' = "crashed"
    /\ UNCHANGED <<token, persona, trends, topic, platform, iteration,
                   creator_response, algorithm_response, audience_response,
                   scores, request, calls, evaluations, extractions, choices,
                   scorecard>>
    /\ UNCHANGED x_vars
    /\ UNCHANGED t_vars

\* select_trend
SelectTrend ==
    /\ pc = "select_trend"
    /\ \E c \in 1..Len(trends) : topic' = trends[c]
    /\ pc' = "select_platform"
    /\ UNCHANGED <<token, persona, trends, platform, iteration,
                   creator_response, algorithm_response, audience_response,
                   scores, request, calls, evaluations, extractions, choices,
                   scorecard>>
    /\ UNCHANGED x_vars
    /\ UNCHANGED t_vars

\* select_platform
SelectPlatform ==
    /\ pc = "select_platform"
    /\ \E c \in 1..Len(PLATFORMS) : platform' = PLATFORMS[c]
    /\ pc' = "loop"
    /\ UNCHANGED <<token, persona, trends, topic, iteration,
                   creator_response, algorithm_response, audience_response,
                   scores, request, calls, evaluations, extractions, choices,
                   scorecard>>
    /\ UNCHANGED x_vars
    /\ UNCHANGED t_vars

\* A loop condition that lets a fourth round start: the variant the
\* round-counter property must reject.
LoopConditionInclusive == iteration <= MAX_ITERATIONS

\* A prompt condition that also asks after the last round: the variant the
\* always-iterate property must reject.
MayIterateInclusive == iteration <= MAX_ITERATIONS

\* while iteration < MAX_ITERATIONS
LoopCondition == iteration < MAX_ITERATIONS

\* if iteration < MAX_ITERATIONS (after the quick score summary)
MayIterate == iteration < MAX_ITERATIONS

\* The loop condition holds: iteration += 1.
EnterRound ==
    /\ pc = "loop"
    /\ LoopCondition
    /\ iteration' = iteration + 1
    /\ pc' = "creator"
    /\ UNCHANGED <<token, persona, trends, topic, platform, creator_response,
                   algorithm_response, audience_response, scores, request,
                   calls, evaluations, extractions, choices, scorecard>>
    /\ UNCHANGED x_vars
    /\ UNCHANGED t_vars

\* The loop condition fails.
LeaveLoop ==
    /\ pc = "loop"
    /\ ~LoopCondition
    /\ pc' = "scorecard"
    /\ UNCHANGED <<token, persona, trends, topic, platform, iteration,
                   creator_response, algorithm_response, audience_response,
                   scores, request, calls, evaluations, extractions, choices,
                   scorecard>>
    /\ UNCHANGED x_vars
    /\ UNCHANGED t_vars

\* A revision_prompt that embeds the feedback of round 1 in every later
\* round: the variant the request-contents property must reject.
CreatorPromptFirstFeedback ==
    IF iteration = 1
    THEN [kind |-> "create", platform |-> platform, topic |-> topic,
          format_hint |-> PLATFORM_RULES[platform].format_hint]
    ELSE [kind |-> "revise", round |-> iteration, platform |-> platform,
          topic |-> topic, algorithm_feedback |-> evaluations[1],
          persona |-> persona, audience_feedback |-> audience_response]

\* creator_prompt in round 1, revision_prompt after it.
CreatorPrompt ==
    IF iteration = 1
    THEN [kind |-> "create", platform |-> platform, topic |-> topic,
          format_hint |-> PLATFORM_RULES[platform].format_hint]
    ELSE [kind |-> "revise", round |-> iteration, platform |-> platform,
          topic |-> topic, algorithm_feedback |-> algorithm_response,
          persona |-> persona, audience_feedback |-> audience_response]

AlgorithmPrompt ==
    [kind |-> "evaluate", platform |-> platform, topic |-> topic,
     rubric |-> BuildScoringRubric(platform), content |-> creator_response]

AudiencePrompt ==
    [kind |-> "react", platform |-> platform, topic |-> topic,
     content |-> creator_response]

\* The log of calls with the outcome of its last entry set.
Outcome(log, o) == [log EXCEPT ![Len(log)].outcome = o]

\* get_agent_response enters user_proxy.initiate_chat.
CallCreator ==
    /\ pc = "creator"
    /\ request' = CreatorPrompt
    /\ calls' = Append(calls, [role |-> "creator", round |-> iteration,
                               outcome |-> "pending"])
    /\ pc' = "creator_wait"
    /\ UNCHANGED <<token, persona, trends, topic, platform, iteration,
                   creator_response, algorithm_response, audience_response,
                   scores, evaluations, extractions, choices, scorecard>>
    /\ UNCHANGED x_vars
    /\ UNCHANGED t_vars

CreatorReturns ==
    /\ pc = "creator_wait"
    /\ \E result \in ChatResults("creator") :
           creator_response' = GetAgentResponse(result)
    /\ calls' = Outcome(calls, "returned")
    /\ pc' = "algorithm"
    /\ UNCHANGED <<token, persona, trends, topic, platform, iteration,
                   algorithm_response, audience_response, scores, request,
                   evaluations, extractions, choices, scorecard>>
    /\ UNCHANGED x_vars
    /\ UNCHANGED t_vars

\* The evaluator and the reactor requested together (both need only the
\* generator's content): the variant the strict-order property must reject.
CallAlgorithmWithAudience ==
    /\ pc = "algorithm"
    /\ request' = AlgorithmPrompt
    /\ calls' = calls \o <<[role |-> "algorithm", round |-> iteration,
                            outcome |-> "pending"],
                           [role |-> "audience", round |-> iteration,
                            outcome |-> "pending"]>>
    /\ pc' = "algorithm_wait"
    /\ UNCHANGED <<token, persona, trends, topic, platform, iteration,
                   creator_response, algorithm_response, audience_response,
                   scores, evaluations, extractions, choices, scorecard>>
    /\ UNCHANGED x_vars
    /\ UNCHANGED t_vars

CallAlgorithm ==
    /\ pc = "algorithm"
    /\ request' = AlgorithmPrompt
    /\ calls' = Append(calls, [role |-> "algorithm", round |-> iteration,
                               outcome |-> "pending"])
    /\ pc' = "algorithm_wait"
    /\ UNCHANGED <<token, persona, trends, topic, platform, iteration,
                   creator_response, algorithm_response, audience_response,
                   scores, evaluations, extractions, choices, scorecard>>
    /\ UNCHANGED x_vars
    /\ UNCHANGED t_vars

AlgorithmReturns ==
    /\ pc = "algorithm_wait"
    /\ \E result \in ChatResults("algorithm") :
           /\ algorithm_response' = GetAgentResponse(result)
           /\ evaluations' = Append(evaluations, GetAgentResponse(result))
    /\ calls' = Outcome(calls, "returned")
    /\ pc' = "audience"
    /\ UNCHANGED <<token, persona, trends, topic, platform, iteration,
                   creator_response, audience_response, scores, request,
                   extractions, choices, scorecard>>
    /\ UNCHANGED x_vars
    /\ UNCHANGED t_vars

CallAudience ==
    /\ pc = "audience"
    /\ request' = AudiencePrompt
    /\ calls' = Append(calls, [role |-> "audience", round |-> iteration,
                               outcome |-> "pending"])
    /\ pc' = "audience_wait"
    /\ UNCHANGED <<token, persona, trends, topic, platform, iteration,
                   creator_response, algorithm_response, audience_response,
                   scores, evaluations, extractions, choices, scorecard>>
    /\ UNCHANGED x_vars
    /\ UNCHANGED t_vars

AudienceReturns ==
    /\ pc = "audience_wait"
    /\ \E result \in ChatResults("audience") :
           audience_response' = GetAgentResponse(result)
    /\ calls' = Outcome(calls, "returned")
    /\ pc' = "extract"
    /\ UNCHANGED <<token, persona, trends, topic, platform, iteration,
                   creator_response, algorithm_response, scores, request,
                   evaluations, extractions, choices, scorecard>>
    /\ UNCHANGED x_vars
    /\ UNCHANGED t_vars

WaitStates == {"creator_wait", "algorithm_wait", "audience_wait"}

\* A failure that is swallowed and followed by the scorecard of the scores
\* so far: the variant the abort property must reject.
AgentRaisesThenScorecard ==
    /\ pc \in WaitStates
    /\ calls' = Outcome(calls, "raised")
    /\ pc' = "scorecard"
    /\ UNCHANGED <<token, persona, trends, topic, platform, iteration,
                   creator_response, algorithm_response, audience_response,
                   scores, request, evaluations, extractions, choices,
                   scorecard>>
    /\ UNCHANGED x_vars
    /\ UNCHANGED t_vars

\* initiate_chat raises: get_agent_response and run_game catch nothing, and
\* __main__ catches KeyboardInterrupt only.
AgentRaises ==
    /\ pc \in WaitStates
    /\ calls' = Outcome(calls, "raised")
    /\ pc' = "crashed"
    /\ UNCHANGED <<token, persona, trends, topic, platform, iteration,
                   creator_response, algorithm_response, audience_response,
                   scores, request, evaluations, extractions, choices,
                   scorecard>>
    /\ UNCHANGED x_vars
    /\ UNCHANGED t_vars

\* The larger of two scores.
Best(a, b) == IF a > b THEN a ELSE b

\* An extraction that keeps the best score of all rounds so far: the variant
\* the lock-in property must reject.
ExtractKeepBest ==
    /\ pc = "extract"
    /\ LET r == ExtractScores(algorithm_response)
       IN  IF r.raised
           THEN /\ pc' = "crashed"
                /\ UNCHANGED <<scores, extractions>>
           ELSE /\ scores' = [key \in DOMAIN r.scores |->
                                 Best(r.scores[key], Get(scores, key, 0))]
                /\ extractions' = extractions + 1
                /\ pc' = "decide"
    /\ UNCHANGED <<token, persona, trends, topic, platform, iteration,
                   creator_response, algorithm_response, audience_response,
                   request, calls, evaluations, choices, scorecard>>
    /\ UNCHANGED x_vars
    /\ UNCHANGED t_vars

\* scores = extract_scores(algorithm_response), then the quick score table.
Extract ==
    /\ pc = "extract"
    /\ LET r == ExtractScores(algorithm_response)
       IN  IF r.raised
           THEN /\ pc' = "crashed"
                /\ UNCHANGED <<scores, extractions>>
           ELSE /\ scores' = r.scores
                /\ extractions' = extractions + 1
                /\ pc' = "decide"
    /\ UNCHANGED <<token, persona, trends, topic, platform, iteration,
                   creator_response, algorithm_response, audience_response,
                   request, calls, evaluations, choices, scorecard>>
    /\ UNCHANGED x_vars
    /\ UNCHANGED t_vars

\* Prompt.ask(..., choices=["1", "2"], default="1"); "2" breaks the loop.
Prompt ==
    /\ pc = "decide"
    /\ MayIterate
    /\ \E choice \in {"1", "2"} :
           /\ choices' = Append(choices, [round |-> iteration, choice |-> choice])
           /\ pc' = IF choice = "2" THEN "scorecard" ELSE "loop"
    /\ UNCHANGED <<token, persona, trends, topic, platform, iteration,
                   creator_response, algorithm_response, audience_response,
                   scores, request, calls, evaluations, extractions,
                   scorecard>>
    /\ UNCHANGED x_vars
    /\ UNCHANGED t_vars

\* "Max iterations reached": back to the loop condition.
MaxReached ==
    /\ pc = "decide"
    /\ ~MayIterate
    /\ pc' = "loop"
    /\ UNCHANGED <<token, persona, trends, topic, platform, iteration,
                   creator_response, algorithm_response, audience_response,
                   scores, request, calls, evaluations, extractions, choices,
                   scorecard>>
    /\ UNCHANGED x_vars
    /\ UNCHANGED t_vars

\* A scorecard that always reports MAX_ITERATIONS iterations used: the
\* variant the scorecard property must reject.
DisplayScorecardAllRounds ==
    /\ pc = "scorecard"
    /\ scorecard' = [shown |-> TRUE,
                     topic |-> topic,
                     platform |-> platform,
                     persona_name |-> persona,
                     reach |-> Get(scores, "reach", 50),
                     engagement |-> Get(scores, "engagement", 50),
                     virality |-> Get(scores, "virality", 50),
                     weighted_total |-> Get(scores, "weighted_total", 50),
                     iteration |-> MAX_ITERATIONS]
    /\ pc' = "done"
    /\ UNCHANGED <<token, persona, trends, topic, platform, iteration,
                   creator_response, algorithm_response, audience_response,
                   scores, request, calls, evaluations, extractions, choices>>
    /\ UNCHANGED x_vars
    /\ UNCHANGED t_vars

\* display_scorecard(...)
DisplayScorecard ==
    /\ pc = "scorecard"
    /\ scorecard' = [shown |-> TRUE,
                     topic |-> topic,
                     platform |-> platform,
                     persona_name |-> persona,
                     reach |-> Get(scores, "reach", 50),
                     engagement |-> Get(scores, "engagement", 50),
                     virality |-> Get(scores, "virality", 50),
                     weighted_total |-> Get(scores, "weighted_total", 50),
                     iteration |-> iteration]
    /\ pc' = "done"
    /\ UNCHANGED <<token, persona, trends, topic, platform, iteration,
                   creator_response, algorithm_response, audience_response,
                   scores, request, calls, evaluations, extractions, choices>>
    /\ UNCHANGED x_vars
    /\ UNCHANGED t_vars

\* The exit status of the process once it has ended: 1 for sys.exit(1) and
\* for an uncaught exception, 0 for a return of run_game and for a caught
\* KeyboardInterrupt.
ExitStatus == IF pc \in {"exited", "crashed"} THEN 1 ELSE 0

Terminal == {"done", "crashed", "exited", "interrupted"}

\* KeyboardInterrupt, caught by __main__.
Interrupt ==
    /\ pc \notin Terminal
    /\ pc # "off"
    /\ pc' = "interrupted"
    /\ UNCHANGED <<token, persona, trends, topic, platform, iteration,
                   creator_response, algorithm_response, audience_response,
                   scores, request, calls, evaluations, extractions, choices,
                   scorecard>>
    /\ UNCHANGED x_vars
    /\ UNCHANGED t_vars

Next ==
    \/ GetLlmConfig
    \/ CreateAgents
    \/ FetchTrends
    \/ FetchTrendsRaises
    \/ SelectTrend
    \/ SelectPlatform
    \/ EnterRound
    \/ LeaveLoop
    \/ CallCreator
    \/ CreatorReturns
    \/ CallAlgorithm
    \/ AlgorithmReturns
    \/ CallAudience
    \/ AudienceReturns
    \/ AgentRaises
    \/ Extract
    \/ Prompt
    \/ MaxReached
    \/ DisplayScorecard
    \/ Interrupt

Spec == Init /\ [][Next]_vars

\* Every step of the process but the extraction and a KeyboardInterrupt:
\* the other statements of run_game, a chat that ends (by returning or by
\* raising) and an answer to the iterate / lock-in prompt.
Proceeds ==
    \/ GetLlmConfig
    \/ CreateAgents
    \/ FetchTrends
    \/ FetchTrendsRaises
    \/ SelectTrend
    \/ SelectPlatform
    \/ EnterRound
    \/ LeaveLoop
    \/ CallCreator
    \/ CreatorReturns
    \/ CallAlgorithm
    \/ AlgorithmReturns
    \/ CallAudience
    \/ AudienceReturns
    \/ AgentRaises
    \/ Prompt
    \/ MaxReached
    \/ DisplayScorecard

\* The states where Extract can be taken: extract_scores either returns or
\* raises on every text, so the step exists whenever control is there.
ExtractEnabled == pc = "extract"

\* Weak fairness of Extract, written out with its enabling condition.
ExtractProceeds == []<>(~ExtractEnabled) \/ []<><<Extract>>_vars

\* The session of a process that is never left waiting: the interpreter
\* runs the next statement of run_game, every chat ends and every prompt is
\* answered, unless a KeyboardInterrupt ends the process first.
SpecLive == Init /\ [][Next]_vars /\ WF_vars(Proceeds) /\ ExtractProceeds

-----------------------------------------------------------------------------
(* Properties of the session: the round counter, the order of the calls
   and the ways a session ends. *)

\* The last answer given to the iterate / lock-in prompt.
LastChoice == choices[Len(choices)]

\* The loop has been left for the scorecard.
Finalized == pc \in {"scorecard", "done"}

\* The three responders in the order of a cycle.
Roles == <<"creator", "algorithm", "audience">>

\* Round r ran in full: each of the three calls of round r returned.
FullCycle(r) ==
    \A i \in 1..Len(Roles) :
        \E k \in 1..Len(calls) :
            calls[k] = [role |-> Roles[i], round |-> r, outcome |-> "returned"]

FullCycles == Cardinality({r \in 1..Len(calls) : FullCycle(r)})

\* C1: the round counter starts at 0, stays within 0..3 and changes only by
\* one step up; a step up from a round i >= 1 follows an "iterate" answer
\* given in round i, with i < 3; the loop is left for the scorecard only on
\* a "lock in" answer or when the counter is 3; and no call belongs to a
\* round beyond 3, so that at most 3 cycles are ever executed.
C1_RoundCounter ==
    /\ [](iteration \in 0..MAX_ITERATIONS)
    /\ [](/\ Len(calls) <= 3 * MAX_ITERATIONS
          /\ \A k \in 1..Len(calls) : calls[k].round \in 1..MAX_ITERATIONS)
    /\ [][iteration' # iteration =>
            /\ iteration' = iteration + 1
            /\ iteration < MAX_ITERATIONS
            /\ iteration > 0 =>
                   /\ choices # <<>>
                   /\ LastChoice = [round |-> iteration, choice |-> "1"]]_vars
    /\ [][Finalized' /\ ~Finalized =>
            \/ iteration = MAX_ITERATIONS
            \/ /\ choices' # <<>>
               /\ choices'[Len(choices')] =
                      [round |-> iteration, choice |-> "2"]]_vars

\* A session that went through all three rounds and showed its scorecard.
C1_Witness ==
    /\ pc = "done"
    /\ iteration = MAX_ITERATIONS
    /\ Len(choices) = MAX_ITERATIONS - 1

\* Every answer given so far was "iterate".
AllIterate == \A k \in 1..Len(choices) : choices[k].choice = "1"

\* C2: a session whose every answer was "iterate" and that left the loop
\* has executed exactly 3 full cycles and was asked exactly twice, after
\* round 1 and after round 2; after round 3 no question is asked (no answer
\* is ever recorded for round 3, the prompt is not enabled there) and the
\* loop is left without one.
C2_AlwaysIterate ==
    /\ (Finalized /\ AllIterate) =>
           /\ iteration = MAX_ITERATIONS
           /\ FullCycles = MAX_ITERATIONS
           /\ Len(calls) = 3 * MAX_ITERATIONS
           /\ extractions = MAX_ITERATIONS
           /\ Len(choices) = MAX_ITERATIONS - 1
           /\ \A k \in 1..Len(choices) : choices[k].round = k
    /\ \A k \in 1..Len(choices) : choices[k].round < MAX_ITERATIONS
    /\ (pc = "decide" /\ iteration = MAX_ITERATIONS) =>
           /\ ~ENABLED Prompt
           /\ ENABLED MaxReached
    /\ (pc = "loop" /\ iteration = MAX_ITERATIONS) =>
           /\ ~ENABLED EnterRound
           /\ ENABLED LeaveLoop

\* The scorecard of a session that answered "iterate" both times.
C2_Witness ==
    /\ pc = "done"
    /\ scorecard.shown
    /\ Len(choices) = 2
    /\ AllIterate
    /\ scorecard.iteration = MAX_ITERATIONS

\* The last answer was "lock in".
LockedIn == choices # <<>> /\ LastChoice.choice = "2"

\* C3: once "lock in" is answered after round i, the counter stays at i,
\* exactly i full cycles (3 * i calls) have been and will ever be executed,
\* no further question is asked, and a scorecard that is shown carries the
\* scores extracted from the evaluation of round i alone.
C3_LockIn ==
    LockedIn =>
        LET i == LastChoice.round
            r == ExtractScores(evaluations[i])
        IN  /\ i \in 1..(MAX_ITERATIONS - 1)
            /\ pc \in {"scorecard", "done", "interrupted"}
            /\ iteration = i
            /\ Len(choices) = i
            /\ FullCycles = i
            /\ Len(calls) = 3 * i
            /\ Len(evaluations) = i
            /\ extractions = i
            /\ scorecard.shown =>
                   /\ ~r.raised
                   /\ scorecard.iteration = i
                   /\ scorecard.reach = r.scores.reach
                   /\ scorecard.engagement = r.scores.engagement
                   /\ scorecard.virality = r.scores.virality
                   /\ scorecard.weighted_total = r.scores.weighted_total

\* Locked in after round 2, the two rounds having been evaluated differently.
C3_Witness ==
    /\ pc = "done"
    /\ scorecard.shown
    /\ LockedIn
    /\ LastChoice.round = 2
    /\ evaluations = <<EvalFull, EvalPartial>>

\* Some responder call has failed.
Failed == \E k \in 1..Len(calls) : calls[k].outcome = "raised"

\* C4: a failed responder call is the last call of the session: the session
\* is aborted, the failed call is not repeated, no later call is made, no
\* question is asked and no scorecard is shown, whatever earlier rounds
\* have scored.
C4_FailureAborts ==
    /\ [](Failed =>
            /\ pc = "crashed"
            /\ calls[Len(calls)].outcome = "raised"
            /\ \A k \in 1..(Len(calls) - 1) : calls[k].outcome = "returned"
            /\ ~scorecard.shown
            /\ Len(choices) = iteration - 1)
    /\ [][Failed => UNCHANGED <<calls, choices, scorecard, pc>>]_vars

\* The evaluator fails in round 2, after round 1 was scored.
C4_Witness ==
    /\ Failed
    /\ pc = "crashed"
    /\ iteration = 2
    /\ extractions = 1
    /\ calls[Len(calls)].role = "algorithm"

\* C5: the k-th call of a session is the call of the responder that the
\* cycle order gives to k, for round ((k - 1) div 3) + 1, so each round
\* calls the three responders once each in the order generator, evaluator,
\* reactor; only the last call can be unfinished, so at most one call is
\* in flight (the session then waits for it, unless it was interrupted) and
\* each call returns before the next is made; and a call of round r is made
\* only after the r - 1 earlier rounds were scored.
C5_StrictOrder ==
    /\ \A k \in 1..Len(calls) :
           /\ calls[k].role = Roles[((k - 1) % 3) + 1]
           /\ calls[k].round = ((k - 1) \div 3) + 1
           /\ extractions >= calls[k].round - 1
    /\ \A k \in 1..(Len(calls) - 1) : calls[k].outcome = "returned"
    /\ Cardinality({k \in 1..Len(calls) : calls[k].outcome = "pending"}) <= 1
    /\ (pc \in WaitStates) =>
           (calls # <<>> /\ calls[Len(calls)].outcome = "pending")
    /\ (calls # <<>> /\ calls[Len(calls)].outcome = "pending") =>
           (pc \in WaitStates \cup {"interrupted"})

\* The reactor's call of round 3 is in flight after eight calls returned.
C5_Witness ==
    /\ Len(calls) = 3 * MAX_ITERATIONS
    /\ pc = "audience_wait"
    /\ calls[Len(calls)] =
           [role |-> "audience", round |-> MAX_ITERATIONS, outcome |-> "pending"]

-----------------------------------------------------------------------------
(* Properties of extract_scores, on its local dict x_scores and on the
   dict it returns, x_ret. *)

AllKeys == {"reach", "engagement", "virality", "weighted_total"}

\* The pass of the loop for the k-th simple key has been made, and has
\* raised.
PassMade(k) == x_key > k \/ (x_pc = "raised" /\ x_key = k)

PassRaised(k) == x_pc = "raised" /\ x_key = k

\* The weighted-total part has been entered, and has raised.
WeightedMade ==
    x_pc \in {"return", "returned"} \/ PassRaised(Len(SimpleKeys) + 1)

WeightedRaised == PassRaised(Len(SimpleKeys) + 1)

\* A number rounded to an integer and clamped to 0..100, as a reader takes
\* it: a number too large for a double included, which clamps to 100.
RoundedClamped(num) == IF IsInf(num) THEN 100 ELSE ScoreOf(num).value

\* C6: extract_scores returns for every text, never raising; what it returns
\* has exactly the four fields, each an integer of 0..100; and for the
\* empty text all four fields are 50.
C6_NeverFails ==
    /\ x_pc # "raised"
    /\ x_pc = "returned" =>
           /\ DOMAIN x_ret = AllKeys
           /\ \A key \in AllKeys : x_ret[key] \in 0..100
    /\ (x_pc = "returned" /\ x_text = <<>>) => x_ret = DefaultScores

\* The end of the first occurrence of a key's label in the text, 0 when the
\* label does not occur.
FirstLabelEnd(clean, key) ==
    LET e(i) == LabelEnd(clean, i, LabelWord(key), ScoreWord)
        at == {i \in 1..Len(clean) : e(i) # 0}
    IN  IF at = {} THEN 0 ELSE e(MinOf(at))

\* C7: for each of reach, engagement and virality, once the pass for the
\* field is made: when the label occurs in the text without its "**" and a
\* number follows its first occurrence, the pass has not raised and the
\* field is the first number after that occurrence, rounded and clamped,
\* in the local dict and in the dict returned.
C7_SimpleFields ==
    \A k \in 1..Len(SimpleKeys) :
        LET key == SimpleKeys[k]
            clean == StripBold(x_text)
            e == FirstLabelEnd(clean, key)
        IN  (PassMade(k) /\ e # 0 /\ DigitsFrom(clean, e) # {}) =>
                LET num == NumberAt(clean, MinOf(DigitsFrom(clean, e)))
                IN  /\ ~PassRaised(k)
                    /\ x_scores[key] = RoundedClamped(num)
                    /\ x_pc = "returned" => x_ret[key] = RoundedClamped(num)

\* C8: once the weighted-total part is made: when the weighted-total line
\* holds a number followed by "/100", the part has not raised and the
\* weighted total is that number, rounded and clamped, whatever else the
\* line holds.
C8_SlashHundredFirst ==
    LET line == WtLine(StripBold(x_text))
    IN  (WeightedMade /\ line # <<>> /\ SlashHundredNumber(line).end # 0) =>
            LET num == SlashHundredNumber(line)
            IN  /\ ~WeightedRaised
                /\ x_scores.weighted_total = RoundedClamped(num)
                /\ x_pc = "returned" =>
                       x_ret.weighted_total = RoundedClamped(num)

\* The numbers after the last "=" of a line, in order.
AfterLastEq(line) == FindAll(SubSeq(line, LastEq(line), Len(line)), 1)

\* C9: once the weighted-total part is made: when the weighted-total line
\* holds no number followed by "/100" but holds "=" with a number after the
\* last "=", the part has not raised and the weighted total is the last
\* number after the last "=", rounded and clamped.
C9_LastAfterEquals ==
    LET line == WtLine(StripBold(x_text))
    IN  (/\ WeightedMade
         /\ line # <<>>
         /\ SlashHundredNumber(line).end = 0
         /\ LastEq(line) # 0
         /\ AfterLastEq(line) # <<>>) =>
            LET num == AfterLastEq(line)[Len(AfterLastEq(line))]
            IN  /\ ~WeightedRaised
                /\ x_scores.weighted_total = RoundedClamped(num)
                /\ x_pc = "returned" =>
                       x_ret.weighted_total = RoundedClamped(num)

\* The number extracted for a field, NoNumber when none is.
ExtractedFor(clean, key) ==
    IF key = "weighted_total"
    THEN IF WtLine(clean) = <<>> THEN NoNumber
         ELSE WeightedNumber(WtLine(clean))
    ELSE SimpleSearch(clean, key).num

\* The part of extract_scores that sets a field has been made without
\* raising.
FieldSet(key) ==
    IF key = "weighted_total" THEN x_pc \in {"return", "returned"}
    ELSE \E k \in 1..Len(SimpleKeys) : SimpleKeys[k] = key /\ x_key > k

\* The number is written k.5 for a k of 0..99.
IsHalf(num) ==
    /\ num.end # 0
    /\ num.fr = <<"5">>
    /\ IntValue(num.ip) \in 0..99
    /\ num.ip = DigitsOf(IntValue(num.ip))

\* Every field that was set from a number k.5, k in 0..99, has the value
\* that up(k) gives to k, in the local dict and in the dict returned.
HalvesRoundTo(up(_)) ==
    \A key \in AllKeys :
        LET num == ExtractedFor(StripBold(x_text), key)
        IN  (FieldSet(key) /\ IsHalf(num)) =>
                /\ x_scores[key] = up(IntValue(num.ip))
                /\ x_pc = "returned" => x_ret[key] = up(IntValue(num.ip))

\* C10 as stated: for every k of 0..99, a field extracted from k.5 is
\* k + 1 (a half is rounded up), in whichever field it is extracted for.
C10_HalfUp ==
    LET up(k) == k + 1
    IN  HalvesRoundTo(up)

\* C10, amended: for every k of 0..99, a field extracted from k.5 is k + 1
\* when k is odd and k when k is even (a half is rounded to the even
\* neighbour), in whichever field it is extracted for.
C10_HalfToEven ==
    LET up(k) == IF k % 2 = 1 THEN k + 1 ELSE k
    IN  HalvesRoundTo(up)

\* A weighted-total line ending in "= 62.5" has given 62.
C10_Witness ==
    /\ x_pc = "returned"
    /\ x_text = HalfText("equals", 62)
    /\ x_ret.weighted_total = 62

\* No number is extracted for the field: its label pattern is not located.
NotLocated(clean, key) == ExtractedFor(clean, key).end = 0

\* extract_scores has ended, by returning or by raising.
XEnded == x_pc \in {"returned", "raised"}

\* C11: when extract_scores has ended, it has returned, and each field whose
\* pattern is not located in the text is exactly 50 in what it returned,
\* whether or not the other fields were located; and a text without a
\* weighted-total line gives weighted_total = 50 while each of reach,
\* engagement and virality that is located has its extracted value.
C11_DefaultsPerField ==
    LET clean == StripBold(x_text)
    IN  /\ \A key \in AllKeys :
               (XEnded /\ NotLocated(clean, key)) =>
                   /\ x_pc = "returned"
                   /\ x_ret[key] = 50
        /\ (XEnded /\ WtLine(clean) = <<>>) =>
               /\ x_pc = "returned"
               /\ x_ret.weighted_total = 50
               /\ \A k \in 1..Len(SimpleKeys) :
                      ~NotLocated(clean, SimpleKeys[k]) =>
                          x_ret[SimpleKeys[k]] =
                              RoundedClamped(ExtractedFor(clean, SimpleKeys[k]))

-----------------------------------------------------------------------------
(* Properties of fetch_gaming_trends, on what it returns, t_ret. *)

\* fetch_gaming_trends has ended, by returning or by raising.
TEnded == t_pc \in {"returned", "raised"}

\* C12: fetch_gaming_trends never raises to its caller: whatever the live
\* lookup does and whatever the state of the fallback file (missing and
\* malformed included), it ends by returning a list.
C12_NeverRaises ==
    /\ t_pc # "raised"
    /\ TEnded => t_pc = "returned"

\* The smaller of two numbers.
Min(a, b) == IF a < b THEN a ELSE b

\* C13: when fetch_gaming_trends has ended it has returned; with the live
\* source unreachable and a fallback list in the file, what it returned is
\* the first min(count, length of the fallback list) entries of that list,
\* in order; on every path the result is at most count long; and it is not
\* empty when the fallback list is not empty and count >= 1.
C13_FallbackPrefix ==
    /\ (TEnded /\ ~t_live.ok /\ t_file.state = "ok") =>
           /\ t_pc = "returned"
           /\ Len(t_ret) = Min(t_count, Len(t_file.trends))
           /\ \A i \in 1..Len(t_ret) : t_ret[i] = t_file.trends[i]
    /\ TEnded =>
           /\ t_pc = "returned"
           /\ Len(t_ret) <= t_count
    /\ (TEnded /\ t_file.state = "ok" /\ t_file.trends # <<>> /\ t_count >= 1) =>
           Len(t_ret) >= 1

\* The live matches: the trends tagged with the Games topic and, when these
\* are fewer than 5, the keyword matches after them.
LiveMatches(all_trends) ==
    LET tagged == TagFilter(all_trends)
    IN  IF Len(tagged) >= 5 THEN tagged
        ELSE tagged \o KeywordMatches(all_trends, tagged)

\* No string appears twice in the list.
NoDuplicates(list) ==
    \A i, j \in 1..Len(list) : list[i] = list[j] => i = j

\* The list without the later occurrences of a string it already holds.
RECURSIVE FirstOccurrences(_, _)
FirstOccurrences(list, seen) ==
    IF list = <<>> THEN <<>>
    ELSE IF In(Head(list), seen) THEN FirstOccurrences(Tail(list), seen)
    ELSE <<Head(list)>> \o
         FirstOccurrences(Tail(list), Append(seen, Head(list)))

\* C20: when fetch_gaming_trends has ended after a live lookup that
\* succeeded, it has returned.  With fewer than 5 live matches the result
\* is the live matches followed by the fallback entries, without the later
\* occurrences of a string, cut to count, and no string appears twice in
\* it.  With 5 or more live matches the result is the live matches cut to
\* count, and the fallback file was not read.
C20_MergeWithFallback ==
    (TEnded /\ t_live.ok) =>
        LET live == LiveMatches(t_live.trends)
        IN  /\ t_pc = "returned"
            /\ Len(live) < 5 =>
                   /\ t_file.state = "ok"
                   /\ t_ret = Take(FirstOccurrences(live \o t_file.trends, <<>>),
                                   t_count)
                   /\ NoDuplicates(t_ret)
            /\ Len(live) >= 5 =>
                   /\ t_ret = Take(live, t_count)
                   /\ t_reads = 0

-----------------------------------------------------------------------------
(* Properties of the rubrics and of the scorecard. *)

\* The sum of a list of numbers.
RECURSIVE SumOf(_)
SumOf(nums) == IF nums = <<>> THEN 0 ELSE Head(nums) + SumOf(Tail(nums))

\* C14: every platform of PLATFORMS has a rubric in PLATFORM_RULES and the
\* weights of its criteria sum to 1.0 (100 hundredths); and the rubric that
\* an evaluation request carries is that of the platform chosen, its whole
\* percents summing to 100.
C14_WeightsSumToOne ==
    /\ \A i \in 1..Len(PLATFORMS) :
           /\ PLATFORMS[i] \in DOMAIN PLATFORM_RULES
           /\ LET criteria == PLATFORM_RULES[PLATFORMS[i]].criteria
              IN  /\ criteria # <<>>
                  /\ SumOf([k \in 1..Len(criteria) |-> criteria[k].weight]) = 100
    /\ request.kind = "evaluate" =>
           /\ request.platform \in DOMAIN PLATFORM_RULES
           /\ request.rubric.platform = request.platform
           /\ LET criteria == request.rubric.criteria
              IN  SumOf([k \in 1..Len(criteria) |-> criteria[k].pct]) = 100

\* An evaluation request for a YouTube post is in flight.
C14_Witness ==
    /\ pc = "algorithm_wait"
    /\ request.kind = "evaluate"
    /\ request.platform = "YouTube"

\* C15: without GITHUB_TOKEN in the environment the process gets no
\* further than get_llm_config, where it exits with a non-zero status: no
\* agent is created (no persona is picked), no call is made, no trend is
\* fetched, no topic or platform is asked for, no prompt is answered and no
\* scorecard is shown.
C15_MissingToken ==
    ~token.set =>
        /\ pc \in {"start", "exited", "interrupted"}
        /\ pc = "start" => ENABLED GetLlmConfig
        /\ pc = "exited" => ExitStatus # 0
        /\ persona = "none"
        /\ trends = <<>>
        /\ topic = "none"
        /\ platform = "none"
        /\ request = NoRequest
        /\ calls = <<>>
        /\ choices = <<>>
        /\ iteration = 0
        /\ ~scorecard.shown

\* The process has exited for want of the token.
C15_Witness ==
    /\ ~token.set
    /\ pc = "exited"
    /\ ExitStatus = 1

\* C16: a scorecard that is shown carries the four scores extract_scores
\* gives for the evaluation of the last round executed, the topic, platform
\* and persona chosen at setup, and as iterations used the number of full
\* cycles executed, which is at least 1; and from the first round on the
\* topic, the platform and the persona never change.
C16_Scorecard ==
    /\ [](scorecard.shown =>
            LET n == Len(evaluations)
            IN  /\ n >= 1
                /\ ~ExtractScores(evaluations[n]).raised
                /\ scorecard.reach = ExtractScores(evaluations[n]).scores.reach
                /\ scorecard.engagement =
                       ExtractScores(evaluations[n]).scores.engagement
                /\ scorecard.virality =
                       ExtractScores(evaluations[n]).scores.virality
                /\ scorecard.weighted_total =
                       ExtractScores(evaluations[n]).scores.weighted_total
                /\ scorecard.iteration = n
                /\ scorecard.iteration = FullCycles
                /\ scorecard.iteration = iteration
                /\ scorecard.topic = topic
                /\ \E i \in 1..Len(trends) : trends[i] = scorecard.topic
                /\ scorecard.platform = platform
                /\ \E i \in 1..Len(PLATFORMS) : PLATFORMS[i] = scorecard.platform
                /\ scorecard.persona_name = persona
                /\ persona \in Personas)
    /\ [][iteration >= 1 => UNCHANGED <<topic, platform, persona>>]_vars

\* The scorecard of three rounds whose last evaluation differs from the
\* earlier ones.
C16_Witness ==
    /\ pc = "done"
    /\ scorecard.shown
    /\ evaluations = <<EvalFull, EvalFull, EvalPartial>>
    /\ scorecard.engagement = 50

\* C17: once the weighted-total part is made: when the weighted-total line
\* holds no number followed by "/100" and has no "=", or no number after
\* its last "=", the weighted total is the first number on the line,
\* rounded and clamped, and the part has not raised; it is the default 50
\* only when the line holds no number at all.
C17_FirstNumberFallback ==
    LET line == WtLine(StripBold(x_text))
    IN  (/\ WeightedMade
         /\ line # <<>>
         /\ SlashHundredNumber(line).end = 0
         /\ (LastEq(line) = 0 \/ AfterLastEq(line) = <<>>)) =>
            IF FirstNumber(line).end # 0
            THEN /\ ~WeightedRaised
                 /\ x_scores.weighted_total = RoundedClamped(FirstNumber(line))
                 /\ x_pc = "returned" =>
                        x_ret.weighted_total = RoundedClamped(FirstNumber(line))
            ELSE x_scores.weighted_total = 50

\* The value the three tries give on a line: 50 when the line is empty or
\* holds no number they pick.
TriesValue(line) ==
    IF line = <<>> THEN 50
    ELSE IF WeightedNumber(line).end = 0 THEN 50
    ELSE RoundedClamped(WeightedNumber(line))

\* The three tries pick on the line a number too large for a double.
TriesOverflow(line) ==
    /\ line # <<>>
    /\ WeightedNumber(line).end # 0
    /\ IsInf(WeightedNumber(line))

\* The positions where a "Weighted Total" label starts that at least one
\* more character follows on the same line.
LabelsWithRest(clean) ==
    {i \in 1..Len(clean) :
        LET e == LabelEnd(clean, i, WeightedWord, TotalWord)
        IN  e # 0 /\ e <= Len(clean) /\ clean[e] # "\n"}

\* The last position of the line that position p is on.
LineEndFrom(clean, p) ==
    IF \E q \in p..Len(clean) : clean[q] = "\n"
    THEN MinOf({q \in p..Len(clean) : clean[q] = "\n"}) - 1
    ELSE Len(clean)

\* The text from the first label of LabelsWithRest to the end of its line.
LabelToLineEnd(clean) ==
    IF LabelsWithRest(clean) = {} THEN <<>>
    ELSE LET i == MinOf(LabelsWithRest(clean))
         IN  SubSeq(clean, i,
                    LineEndFrom(clean, LabelEnd(clean, i, WeightedWord, TotalWord)))

\* C18 as stated: once the weighted-total part is made without raising,
\* the weighted total is what the three tries give on the whole first line
\* that holds the label, the text before the label included, and also when
\* the label ends its line.
C18_WholeLine ==
    (WeightedMade /\ ~WeightedRaised) =>
        x_scores.weighted_total = TriesValue(WtWholeLine(StripBold(x_text)))

\* C18, amended: the three tries are made on the text from the first label
\* that at least one more character follows on its line, to the end of
\* that line.  Once the weighted-total part is made: it has raised exactly
\* when the tries pick there a number too large for a double; otherwise
\* the weighted total is what the tries give there, and 50 when there is
\* no such label.  The text before the label is not searched, and a label
\* that ends its line is passed over.
C18_FromLabelToLineEnd ==
    WeightedMade =>
        LET part == LabelToLineEnd(StripBold(x_text))
        IN  /\ WeightedRaised <=> TriesOverflow(part)
            /\ ~WeightedRaised =>
                   /\ x_scores.weighted_total = TriesValue(part)
                   /\ x_pc = "returned" =>
                          x_ret.weighted_total = TriesValue(part)

\* " 7Weighted Total 61.5" has given 62: the 7 before the label was not a
\* candidate.
C18_Witness ==
    /\ x_pc = "returned"
    /\ x_text = Fragments[7] \o Fragments[4] \o Fragments[5]
    /\ x_ret.weighted_total = 62

\* C19: the request in flight to the generator is, in round 1, the creation
\* request with the topic, the platform and the platform's format hint,
\* and in a round i > 1 a revision request that carries the evaluation of
\* round i - 1 (the last of the i - 1 logged so far) and the reaction held
\* since round i - 1; the requests in flight to the evaluator and to the
\* reactor carry the content the generator returned in the same round.  The
\* content, the evaluation and the reaction change only when the call of
\* their responder returns, so what a request carries is what that
\* responder returned last.
C19_RequestContents ==
    /\ [](pc = "creator_wait" =>
            IF iteration = 1
            THEN request = [kind |-> "create", platform |-> platform,
                            topic |-> topic,
                            format_hint |-> PLATFORM_RULES[platform].format_hint]
            ELSE /\ request.kind = "revise"
                 /\ request.round = iteration
                 /\ Len(evaluations) = iteration - 1
                 /\ request.algorithm_feedback = evaluations[iteration - 1]
                 /\ request.algorithm_feedback = algorithm_response
                 /\ request.audience_feedback = audience_response)
    /\ [](pc = "algorithm_wait" =>
            /\ request.kind = "evaluate"
            /\ request.content = creator_response)
    /\ [](pc = "audience_wait" =>
            /\ request.kind = "react"
            /\ request.content = creator_response)
    /\ [][creator_response' # creator_response =>
            pc = "creator_wait" /\ pc' = "algorithm"]_vars
    /\ [][algorithm_response' # algorithm_response =>
            pc = "algorithm_wait" /\ pc' = "audience"]_vars
    /\ [][audience_response' # audience_response =>
            pc = "audience_wait" /\ pc' = "extract"]_vars
    /\ [][(pc = "audience_wait" /\ pc' = "extract") =>
            /\ Len(calls) = 3 * iteration
            /\ Len(evaluations) = iteration
            /\ evaluations[iteration] = algorithm_response]_vars

\* The revision request of round 3 is in flight, rounds 1 and 2 having been
\* evaluated differently.
C19_Witness ==
    /\ pc = "creator_wait"
    /\ iteration = 3
    /\ request.kind = "revise"
    /\ evaluations = <<EvalFull, EvalPartial>>
    /\ request.algorithm_feedback = EvalPartial

-----------------------------------------------------------------------------
(* Termination of the session. *)

\* The state of the session is set up (iteration = 0 and the empty
\* responses and scores) and the loop has not been entered.
Created == pc = "loop" /\ iteration = 0

\* The user has left a prompt unanswered: the process ended by
\* KeyboardInterrupt.
Unanswered == pc = "interrupted"

\* The loop has been left and the scorecard displayed.
ScorecardDisplayed == pc = "done" /\ scorecard.shown

\* C21: unless a responder call raises or the user interrupts instead of
\* answering, a session that is created eventually leaves the loop and
\* displays the scorecard; a scorecard that is shown is never displayed
\* again or changed; and once the loop is left no responder is called and
\* no prompt is asked.
C21_AlwaysFinalizes ==
    /\ Created ~> (ScorecardDisplayed \/ Failed \/ Unanswered)
    /\ [][scorecard.shown => scorecard' = scorecard]_vars
    /\ [][Finalized => (calls' = calls /\ choices' = choices)]_vars

=============================================================================
